---- MODULE Spec2Model ----
(***************************************************************************)
(* Model of reth-bench's EngineApiValidWaitExt (valid_payload.rs): the six *)
(* "wait until VALID" operations layered over an engine API client.        *)
(*                                                                         *)
(* An invocation is an async fn: it runs from one .await to the next, so   *)
(* each action below is one such segment.  The engine API client is a      *)
(* scripted stand-in: it answers the k-th call of an invocation with the   *)
(* k-th outcome of that invocation's script (a decoded response or a       *)
(* transport error) and leaves a call beyond the script unanswered.        *)
(***************************************************************************)
EXTENDS Integers, Sequences, FiniteSets, TLC

VARIABLES
    op,        \* op[t]: which wait operation invocation t is
    args,      \* args[t]: the arguments owned by invocation t
    script,    \* script[t]: outcomes the client gives to t's calls, in order
    pc,        \* pc[t]: "start" | "await" | "returned" | "panicked" | "aborted"
    status,    \* status[t]: the local `status` (None before the first response)
    sent,      \* sent[t]: requests t has issued to the client, in order
    received,  \* received[t]: outcomes t's awaits have produced, in order
    inflight,  \* requests issued and not yet answered
    result,    \* result[t]: None, or the TransportResult returned to the caller
    log        \* entries written by error!

vars == <<op, args, script, pc, status, sent, received, inflight, result, log>>

\* ------------------------------------------------------------- bounds ----
MaxScript == 3

\* -------------------------------------------------------------- values ---
None == <<>>
Some(x) == <<x>>

PayloadStatusEnum == {"Valid", "Invalid", "Syncing", "Accepted"}

\* PayloadStatus { status, latest_valid_hash }
PayloadStatus ==
    [status : {"Valid", "Invalid"}, latest_valid_hash : {None, Some("h1")}]
    \cup [status : {"Syncing", "Accepted"}, latest_valid_hash : {None}]

\* ForkchoiceUpdated { payload_status, payload_id }
ForkchoiceUpdated ==
    [payload_status : {s \in PayloadStatus : s.status = "Valid"},
     payload_id : {None, Some("id1")}]
    \cup [payload_status : {s \in PayloadStatus : s.status # "Valid"},
          payload_id : {None}]

TransportError == {"connection_closed", "deser_error"}

NewPayloadOps == {"new_payload_v1_wait", "new_payload_v2_wait", "new_payload_v3_wait"}
ForkChoiceOps == {"fork_choice_updated_v1_wait", "fork_choice_updated_v2_wait",
                  "fork_choice_updated_v3_wait"}
Ops == NewPayloadOps \cup ForkChoiceOps
V3Ops == {"new_payload_v3_wait", "fork_choice_updated_v3_wait"}

\* The arguments each operation takes (trait signatures).
ArgsOf(o) ==
    CASE o \in {"new_payload_v1_wait", "new_payload_v2_wait"} ->
            [payload : {"pA", "pB"}]
      [] o = "new_payload_v3_wait" ->
            {[payload |-> "pA", versioned_hashes |-> <<>>,
              parent_beacon_block_root |-> "r1"],
             [payload |-> "pB", versioned_hashes |-> <<"vh1", "vh2">>,
              parent_beacon_block_root |-> "r2"]}
      [] o \in ForkChoiceOps ->
            {[fork_choice_state |-> "fcsA", payload_attributes |-> None],
             [fork_choice_state |-> "fcsB", payload_attributes |-> Some("attrs1")]}

\* What one client call can produce: TransportResult<PayloadStatus> resp.
\* TransportResult<ForkchoiceUpdated>.
Ok(v) == [kind |-> "Ok", value |-> v]
Err(e) == [kind |-> "Err", error |-> e]

Outcomes(o) ==
    {Ok(v) : v \in IF o \in NewPayloadOps THEN PayloadStatus ELSE ForkchoiceUpdated}
    \cup {Err(e) : e \in TransportError}

RECURSIVE SeqsUpTo(_, _)
SeqsUpTo(S, n) ==
    IF n = 0 THEN {<<>>}
    ELSE LET shorter == SeqsUpTo(S, n - 1)
         IN  shorter \cup {Append(s, x) : s \in {q \in shorter : Len(q) = n - 1}, x \in S}

Scripts(o) == SeqsUpTo(Outcomes(o), MaxScript) \ {<<>>}

\* ------------------------------------------------------- pure helpers ----
\* The client method an operation wraps.
Method(o) ==
    CASE o = "new_payload_v1_wait" -> "new_payload_v1"
      [] o = "new_payload_v2_wait" -> "new_payload_v2"
      [] o = "new_payload_v3_wait" -> "new_payload_v3"
      [] o = "fork_choice_updated_v1_wait" -> "fork_choice_updated_v1"
      [] o = "fork_choice_updated_v2_wait" -> "fork_choice_updated_v2"
      [] o = "fork_choice_updated_v3_wait" -> "fork_choice_updated_v3"

\* x.clone(): an equal value, the original left in place.
clone(x) == x

\* The client call each operation makes, with (clones of) its arguments.
Call(o, a) ==
    CASE o \in {"new_payload_v1_wait", "new_payload_v2_wait"} ->
            [method |-> Method(o), payload |-> clone(a.payload)]
      [] o = "new_payload_v3_wait" ->
            [method |-> Method(o), payload |-> clone(a.payload),
             versioned_hashes |-> clone(a.versioned_hashes),
             parent_beacon_block_root |-> a.parent_beacon_block_root]
      [] o \in ForkChoiceOps ->
            [method |-> Method(o), fork_choice_state |-> a.fork_choice_state,
             payload_attributes |-> clone(a.payload_attributes)]

\* status.status for payload submissions, status.payload_status.status for
\* forkchoice updates.
StatusOf(o, s) ==
    IF o \in NewPayloadOps THEN s.status ELSE s.payload_status.status

\* Mutant: Accepted is taken for Invalid as well.
is_invalid_OrAccepted(e) == e \in {"Invalid", "Accepted"}

is_invalid(e) == e = "Invalid"

\* Mutant: the comparison never finds the status equal to Valid.
LoopCond_NeverExits(o, s) == TRUE

\* Mutant: the loop also stops on Invalid.
LoopCond_StopsOnInvalid(o, s) == StatusOf(o, s) \notin {"Valid", "Invalid"}

\* Mutant: the loop also stops on Accepted.
LoopCond_StopsOnAccepted(o, s) == StatusOf(o, s) \notin {"Valid", "Accepted"}

\* The loop condition `status.status != PayloadStatusEnum::Valid`.
LoopCond(o, s) == StatusOf(o, s) # "Valid"

\* Mutant: the V3 loops have no invalid branch either.
InvalidBranch_Never(o, s) == FALSE

\* Mutant: only the V3 payload loop has the invalid branch.
InvalidBranch_PayloadOnly(o, s) ==
    o = "new_payload_v3_wait" /\ is_invalid(StatusOf(o, s))

\* The `if status.status.is_invalid()` branch, present in the V3 loops only.
InvalidBranch(o, s) == o \in V3Ops /\ is_invalid(StatusOf(o, s))

\* Mutant: the event records the response but none of the request fields.
ErrorEvent_OmitsRequest(o, s, a) ==
    [message |-> IF o = "new_payload_v3_wait" THEN "Invalid payload" ELSE "Invalid FCU",
     status |-> s]

\* The fields of the error! event.
ErrorEvent(o, s, a) ==
    IF o = "new_payload_v3_wait"
    THEN [message |-> "Invalid payload", status |-> s, payload |-> a.payload,
          versioned_hashes |-> a.versioned_hashes,
          parent_beacon_block_root |-> a.parent_beacon_block_root]
    ELSE [message |-> "Invalid FCU", status |-> s,
          fork_choice_state |-> a.fork_choice_state,
          payload_attributes |-> a.payload_attributes]

PanicMessage(o) == IF o = "new_payload_v3_wait" THEN "Invalid payload" ELSE "Invalid FCU"

\* ------------------------------------------------------------ state ------
Tasks == DOMAIN pc

Request(t, k) == [task |-> t, attempt |-> k, call |-> Call(op[t], args[t])]

\* Mutant: an answer is matched to the waiting invocation by method and
\* attempt only, so it may be the answer to another invocation's request.
Awaited_SameMethod(t) ==
    {r \in inflight : r.call.method = Method(op[t]) /\ r.attempt = Len(sent[t])}

\* The request of t that its pending .await is waiting on.
Awaited(t) == {r \in inflight : r.task = t /\ r.attempt = Len(sent[t])}

\* The client's answer to a request: the scripted outcome of that attempt.
Answer(r) == script[r.task][r.attempt]
Answerable(r) == r.attempt <= Len(script[r.task])

\* An invocation as constructed by its caller: the operation, its arguments,
\* and the outcomes the client will give to its calls.
Invocations ==
    UNION {[op : {o}, args : ArgsOf(o), script : Scripts(o)] : o \in Ops}

\* The state right after the invocations inv[t] were constructed.
InitWith(inv) ==
    /\ op = [t \in DOMAIN inv |-> inv[t].op]
    /\ args = [t \in DOMAIN inv |-> inv[t].args]
    /\ script = [t \in DOMAIN inv |-> inv[t].script]
    /\ pc = [t \in DOMAIN inv |-> "start"]
    /\ status = [t \in DOMAIN inv |-> None]
    /\ sent = [t \in DOMAIN inv |-> <<>>]
    /\ received = [t \in DOMAIN inv |-> <<>>]
    /\ inflight = {}
    /\ result = [t \in DOMAIN inv |-> None]
    /\ log = <<>>

InitFor(T) == \E inv \in [T -> Invocations] : InitWith(inv)

Init == InitFor({1})

\* ----------------------------------------------------------- actions -----
\* Mutant: the first call and a speculative second one are issued together.
FirstCall_Pipelined(t) ==
    /\ pc[t] = "start"
    /\ sent' = [sent EXCEPT ![t] = @ \o <<Call(op[t], args[t]), Call(op[t], args[t])>>]
    /\ inflight' = inflight \cup {Request(t, 1), Request(t, 2)}
    /\ pc' = [pc EXCEPT ![t] = "await"]
    /\ UNCHANGED <<op, args, script, status, received, result, log>>

\* `let mut status = self.<method>(args.clone()).await?;` up to the .await:
\* the first call is issued.
FirstCall(t) ==
    /\ pc[t] = "start"
    /\ sent' = [sent EXCEPT ![t] = Append(@, Call(op[t], args[t]))]
    /\ inflight' = inflight \cup {Request(t, 1)}
    /\ pc' = [pc EXCEPT ![t] = "await"]
    /\ UNCHANGED <<op, args, script, status, received, result, log>>

\* Mutant: a transport error is swallowed and the call is issued again.
AwaitErr_Retries(t) ==
    /\ pc[t] = "await"
    /\ \E r \in Awaited(t) :
        /\ Answerable(r)
        /\ Answer(r).kind = "Err"
        /\ received' = [received EXCEPT ![t] = Append(@, Answer(r))]
        /\ sent' = [sent EXCEPT ![t] = Append(@, Call(op[t], args[t]))]
        /\ inflight' = (inflight \ {r}) \cup {Request(t, Len(sent[t]) + 1)}
    /\ UNCHANGED <<op, args, script, pc, status, result, log>>

\* `.await?` yields Err(e): the `?` returns it from the operation.
AwaitErr(t) ==
    /\ pc[t] = "await"
    /\ \E r \in Awaited(t) :
        /\ Answerable(r)
        /\ Answer(r).kind = "Err"
        /\ inflight' = inflight \ {r}
        /\ received' = [received EXCEPT ![t] = Append(@, Answer(r))]
        /\ result' = [result EXCEPT ![t] = Some(Err(Answer(r).error))]
        /\ pc' = [pc EXCEPT ![t] = "returned"]
    /\ UNCHANGED <<op, args, script, status, sent, log>>

\* A response with an absent latest_valid_hash filled in from an earlier one.
Merged(o, prev, cur) ==
    LET ps(x) == IF o \in NewPayloadOps THEN x ELSE x.payload_status
        hash == IF ps(cur).latest_valid_hash = None /\ prev # None
                THEN ps(prev[1]).latest_valid_hash
                ELSE ps(cur).latest_valid_hash
        filled == [ps(cur) EXCEPT !.latest_valid_hash = hash]
    IN  IF o \in NewPayloadOps THEN filled ELSE [cur EXCEPT !.payload_status = filled]

\* Mutant: the returned response keeps the latest_valid_hash of the previous
\* response when the Valid one carries none.
ReturnOk_MergesEarlier(t) ==
    /\ pc[t] = "await"
    /\ \E r \in Awaited(t) :
        /\ Answerable(r)
        /\ Answer(r).kind = "Ok"
        /\ ~LoopCond(op[t], Answer(r).value)
        /\ inflight' = inflight \ {r}
        /\ received' = [received EXCEPT ![t] = Append(@, Answer(r))]
        /\ status' = [status EXCEPT ![t] = Some(Merged(op[t], @, Answer(r).value))]
        /\ result' = [result EXCEPT ![t] = Some(Ok(status'[t][1]))]
        /\ pc' = [pc EXCEPT ![t] = "returned"]
    /\ UNCHANGED <<op, args, script, sent, log>>

\* Mutant: the response of the first call is returned, later ones are dropped
\* (the loop assigns a shadowing `status`).
ReturnOk_StaleStatus(t) ==
    /\ pc[t] = "await"
    /\ \E r \in Awaited(t) :
        /\ Answerable(r)
        /\ Answer(r).kind = "Ok"
        /\ ~LoopCond(op[t], Answer(r).value)
        /\ inflight' = inflight \ {r}
        /\ received' = [received EXCEPT ![t] = Append(@, Answer(r))]
        /\ status' = [status EXCEPT ![t] = IF @ = None THEN Some(Answer(r).value) ELSE @]
        /\ result' = [result EXCEPT ![t] = Some(Ok(status'[t][1]))]
        /\ pc' = [pc EXCEPT ![t] = "returned"]
    /\ UNCHANGED <<op, args, script, sent, log>>

\* `.await?` yields Ok(status) and the loop condition is false: Ok(status).
ReturnOk(t) ==
    /\ pc[t] = "await"
    /\ \E r \in Awaited(t) :
        /\ Answerable(r)
        /\ Answer(r).kind = "Ok"
        /\ ~LoopCond(op[t], Answer(r).value)
        /\ inflight' = inflight \ {r}
        /\ received' = [received EXCEPT ![t] = Append(@, Answer(r))]
        /\ status' = [status EXCEPT ![t] = Some(Answer(r).value)]
        /\ result' = [result EXCEPT ![t] = Some(Ok(Answer(r).value))]
        /\ pc' = [pc EXCEPT ![t] = "returned"]
    /\ UNCHANGED <<op, args, script, sent, log>>

\* Mutant: the invalid branch logs the response but does not panic, and the
\* loop goes on to the next call.
PanicInvalid_LogsOnly(t) ==
    /\ pc[t] = "await"
    /\ \E r \in Awaited(t) :
        /\ Answerable(r)
        /\ Answer(r).kind = "Ok"
        /\ LoopCond(op[t], Answer(r).value)
        /\ InvalidBranch(op[t], Answer(r).value)
        /\ received' = [received EXCEPT ![t] = Append(@, Answer(r))]
        /\ status' = [status EXCEPT ![t] = Some(Answer(r).value)]
        /\ log' = Append(log, ErrorEvent(op[t], Answer(r).value, args[t]))
        /\ sent' = [sent EXCEPT ![t] = Append(@, Call(op[t], args[t]))]
        /\ inflight' = (inflight \ {r}) \cup {Request(t, Len(sent[t]) + 1)}
    /\ UNCHANGED <<op, args, script, pc, result>>

\* Mutant: the invalid branch logs and returns an error instead of panicking.
PanicInvalid_ReturnsErr(t) ==
    /\ pc[t] = "await"
    /\ \E r \in Awaited(t) :
        /\ Answerable(r)
        /\ Answer(r).kind = "Ok"
        /\ LoopCond(op[t], Answer(r).value)
        /\ InvalidBranch(op[t], Answer(r).value)
        /\ inflight' = inflight \ {r}
        /\ received' = [received EXCEPT ![t] = Append(@, Answer(r))]
        /\ status' = [status EXCEPT ![t] = Some(Answer(r).value)]
        /\ log' = Append(log, ErrorEvent(op[t], Answer(r).value, args[t]))
        /\ result' = [result EXCEPT ![t] = Some(Err(PanicMessage(op[t])))]
        /\ pc' = [pc EXCEPT ![t] = "returned"]
    /\ UNCHANGED <<op, args, script, sent>>

\* What panic! in invocation t takes down with it.  The panic unwinds the
\* task that polls t: invocations driven by other tasks go on (first set);
\* invocations still running in the same task, or all of them when the panic
\* ends the process, are dropped with their pending calls (second set).
Unwound(t) == {{}, {u \in Tasks \ {t} : pc[u] \in {"start", "await"}}}

\* `.await?` yields Ok(status), the loop is entered and the V3 invalid branch
\* is taken: error!(...) then panic!(...).
PanicInvalid(t) ==
    /\ pc[t] = "await"
    /\ \E r \in Awaited(t) :
        /\ Answerable(r)
        /\ Answer(r).kind = "Ok"
        /\ LoopCond(op[t], Answer(r).value)
        /\ InvalidBranch(op[t], Answer(r).value)
        /\ received' = [received EXCEPT ![t] = Append(@, Answer(r))]
        /\ status' = [status EXCEPT ![t] = Some(Answer(r).value)]
        /\ log' = Append(log, ErrorEvent(op[t], Answer(r).value, args[t]))
        /\ \E dropped \in Unwound(t) :
            /\ inflight' = {q \in inflight \ {r} : q.task \notin dropped}
            /\ pc' = [u \in Tasks |->
                        IF u = t THEN "panicked"
                        ELSE IF u \in dropped THEN "aborted" ELSE pc[u]]
    /\ UNCHANGED <<op, args, script, sent, result>>

\* The arguments after versioned_hashes / payload_attributes were moved out
\* of them (std::mem::take) instead of cloned.
Taken(a) ==
    [f \in DOMAIN a |->
        IF f \in {"versioned_hashes", "payload_attributes"} THEN <<>> ELSE a[f]]

\* Mutant: the first call moved its arguments, so a retry sends what is left.
Retry_MovedArgs(t) ==
    /\ pc[t] = "await"
    /\ \E r \in Awaited(t) :
        /\ Answerable(r)
        /\ Answer(r).kind = "Ok"
        /\ LoopCond(op[t], Answer(r).value)
        /\ ~InvalidBranch(op[t], Answer(r).value)
        /\ received' = [received EXCEPT ![t] = Append(@, Answer(r))]
        /\ status' = [status EXCEPT ![t] = Some(Answer(r).value)]
        /\ sent' = [sent EXCEPT ![t] = Append(@, Call(op[t], Taken(args[t])))]
        /\ inflight' = (inflight \ {r}) \cup
              {[task |-> t, attempt |-> Len(sent[t]) + 1,
                call |-> Call(op[t], Taken(args[t]))]}
    /\ UNCHANGED <<op, args, script, pc, result, log>>

\* Mutant: the loop gives up after two calls and returns the last status.
Retry_GivesUp(t) ==
    /\ pc[t] = "await"
    /\ \E r \in Awaited(t) :
        /\ Answerable(r)
        /\ Answer(r).kind = "Ok"
        /\ LoopCond(op[t], Answer(r).value)
        /\ ~InvalidBranch(op[t], Answer(r).value)
        /\ received' = [received EXCEPT ![t] = Append(@, Answer(r))]
        /\ status' = [status EXCEPT ![t] = Some(Answer(r).value)]
        /\ IF Len(sent[t]) < 2
           THEN /\ sent' = [sent EXCEPT ![t] = Append(@, Call(op[t], args[t]))]
                /\ inflight' = (inflight \ {r}) \cup {Request(t, Len(sent[t]) + 1)}
                /\ UNCHANGED <<pc, result>>
           ELSE /\ inflight' = inflight \ {r}
                /\ result' = [result EXCEPT ![t] = Some(Ok(Answer(r).value))]
                /\ pc' = [pc EXCEPT ![t] = "returned"]
                /\ UNCHANGED sent
    /\ UNCHANGED <<op, args, script, log>>

\* `.await?` yields Ok(status), the loop is entered (or continues) and the
\* body issues the call again, up to its .await.
Retry(t) ==
    /\ pc[t] = "await"
    /\ \E r \in Awaited(t) :
        /\ Answerable(r)
        /\ Answer(r).kind = "Ok"
        /\ LoopCond(op[t], Answer(r).value)
        /\ ~InvalidBranch(op[t], Answer(r).value)
        /\ received' = [received EXCEPT ![t] = Append(@, Answer(r))]
        /\ status' = [status EXCEPT ![t] = Some(Answer(r).value)]
        /\ sent' = [sent EXCEPT ![t] = Append(@, Call(op[t], args[t]))]
        /\ inflight' = (inflight \ {r}) \cup {Request(t, Len(sent[t]) + 1)}
    /\ UNCHANGED <<op, args, script, pc, result, log>>

Next ==
    \E t \in Tasks :
        \/ FirstCall(t)
        \/ AwaitErr(t)
        \/ ReturnOk(t)
        \/ PanicInvalid(t)
        \/ Retry(t)

Spec == Init /\ [][Next]_vars

\* The runtime resumes an invocation once the call it awaits has completed,
\* and the client completes every call it has an outcome for.
FairSpec == Spec /\ WF_vars(Next)

\* ------------------------------------------- concurrent invocations ------
MaxConcScript == 2

\* Two invocations sharing the client, of the same or of different kinds and
\* versions, each with its own arguments and its own outcomes.
ConcOps == {"new_payload_v1_wait", "new_payload_v3_wait", "fork_choice_updated_v3_wait"}

ConcOutcomes(o) ==
    {x \in Outcomes(o) :
        IF x.kind = "Err" THEN x.error = "connection_closed"
        ELSE /\ StatusOf(o, x.value) # "Accepted"
             /\ x.value \in [status : PayloadStatusEnum, latest_valid_hash : {None}]
                             \cup [payload_status : PayloadStatus, payload_id : {None}]
             /\ o \in ForkChoiceOps => x.value.payload_status.latest_valid_hash = None}

ConcArgs(o, t) ==
    {a \in ArgsOf(o) :
        IF o \in NewPayloadOps THEN a.payload = (IF t = 1 THEN "pA" ELSE "pB")
        ELSE a.fork_choice_state = (IF t = 1 THEN "fcsA" ELSE "fcsB")}

ConcInvocations(t) ==
    UNION {[op : {o}, args : ConcArgs(o, t),
            script : SeqsUpTo(ConcOutcomes(o), MaxConcScript) \ {<<>>}] : o \in ConcOps}

InitConc ==
    \E i1 \in ConcInvocations(1), i2 \in ConcInvocations(2) : InitWith(<<i1, i2>>)

SpecConc == InitConc /\ [][Next]_vars

\* --------------------------------------- two operations, same outcomes ----
\* The forkchoice-update outcome that carries payload-submission outcome x:
\* the same PayloadStatus inside a ForkchoiceUpdated, the same failure.
AsForkchoice(x) ==
    IF x.kind = "Err" THEN x
    ELSE Ok([payload_status |-> x.value, payload_id |-> None])

VersionOf(o) ==
    CASE o \in {"new_payload_v1_wait", "fork_choice_updated_v1_wait"} -> 1
      [] o \in {"new_payload_v2_wait", "fork_choice_updated_v2_wait"} -> 2
      [] o \in V3Ops -> 3

SameKind(o1, o2) == (o1 \in NewPayloadOps) = (o2 \in NewPayloadOps)

\* A V1/V2 operation next to the V3 operation of its kind, both given the
\* same outcomes, none of them Invalid.
VersionPairs ==
    UNION {[o1 : {q[1]}, o2 : {q[2]},
            s1 : {s \in Scripts(q[1]) :
                    \A k \in 1..Len(s) :
                        s[k].kind = "Ok" => StatusOf(q[1], s[k].value) # "Invalid"}]
           : q \in {q \in (Ops \ V3Ops) \X V3Ops : SameKind(q[1], q[2])}}

\* A payload submission next to the forkchoice update of its version, the
\* latter given the outcomes of the former wrapped in ForkchoiceUpdated.
KindPairs ==
    UNION {[o1 : {q[1]}, o2 : {q[2]}, s1 : Scripts(q[1])]
           : q \in {q \in NewPayloadOps \X ForkChoiceOps :
                        VersionOf(q[1]) = VersionOf(q[2])}}

InitEquiv ==
    \E p \in VersionPairs \cup KindPairs :
    \E a1 \in ConcArgs(p.o1, 1), a2 \in ConcArgs(p.o2, 2) :
        InitWith(<<[op |-> p.o1, args |-> a1, script |-> p.s1],
                   [op |-> p.o2, args |-> a2,
                    script |-> IF SameKind(p.o1, p.o2) THEN p.s1
                               ELSE [k \in 1..Len(p.s1) |-> AsForkchoice(p.s1[k])]]>>)

SpecEquiv == InitEquiv /\ [][Next]_vars

\* ------------------------------------------------------------ typing -----
TypeOK ==
    /\ \A t \in Tasks :
        /\ op[t] \in Ops
        /\ args[t] \in ArgsOf(op[t])
        /\ pc[t] \in {"start", "await", "returned", "panicked", "aborted"}
        /\ Len(sent[t]) <= MaxScript + 1
        /\ Len(received[t]) <= MaxScript

\* ------------------------------------------------------ observations -----
Terminated(t) == pc[t] \in {"returned", "panicked"}
ReturnedOk(t) == pc[t] = "returned" /\ result[t] # None /\ result[t][1].kind = "Ok"
ReturnedErr(t) == pc[t] = "returned" /\ result[t] # None /\ result[t][1].kind = "Err"
Outstanding(t) == {r \in inflight : r.task = t}
\* The status carried by the k-th outcome of a script, "Err" for a failure.
ScriptStatus(t, k) ==
    IF script[t][k].kind = "Ok" THEN StatusOf(op[t], script[t][k].value) ELSE "Err"

\* ------------------------------------------------------------ claims -----
\* C1: whenever a wait operation returns a success value, the inner status of
\* that value (status, resp. payload_status.status) is Valid, never Syncing,
\* Accepted or Invalid.
C1_SuccessIsValid ==
    \A t \in Tasks :
        ReturnedOk(t) => StatusOf(op[t], result[t][1].value) = "Valid"

\* C1 witness: an operation has returned success after at least one retry.
C1_Witness ==
    \E t \in Tasks : ReturnedOk(t) /\ Len(sent[t]) >= 2

\* C2: if the client call of attempt k fails at the transport level, no attempt
\* k+1 is issued and exactly that error is returned to the caller, for the
\* first call as for any retry.
C2_TransportErrorFailFast ==
    \A t \in Tasks : \A k \in 1..Len(received[t]) :
        script[t][k].kind = "Err" =>
            /\ Len(sent[t]) = k
            /\ Len(received[t]) = k
            /\ Outstanding(t) = {}
            /\ pc[t] = "returned"
            /\ result[t] = Some(Err(script[t][k].error))

\* C2 witness: a retry (not the first call) failed and its error was returned.
C2_Witness ==
    \E t \in Tasks :
        /\ ReturnedErr(t)
        /\ Len(received[t]) >= 2
        /\ script[t][Len(received[t])].kind = "Err"
        /\ script[t][1].kind = "Ok"

\* A script of decoded responses only (no transport failure) whose last
\* response is Valid and, for a V3 operation, with no Invalid before it.
ConvergentScript(t) ==
    /\ \A k \in 1..Len(script[t]) : script[t][k].kind = "Ok"
    /\ ScriptStatus(t, Len(script[t])) = "Valid"
    /\ op[t] \in V3Ops =>
          \A k \in 1..(Len(script[t]) - 1) : ScriptStatus(t, k) # "Invalid"

\* C3 as stated: for a response sequence ending in Valid (for V3, with no
\* Invalid before that point), the finished operation has issued as many calls
\* as the sequence has responses and has returned its final response.
C3_Original ==
    \A t \in Tasks :
        ConvergentScript(t) /\ Terminated(t) =>
            /\ Len(sent[t]) = Len(script[t])
            /\ result[t] = Some(script[t][Len(script[t])])

\* C3 (amended): for a response sequence whose only Valid response is its last
\* (for V3, with no Invalid before it), the operation never issues more calls
\* than the sequence has responses, never panics, and when it has finished it
\* has issued exactly as many calls as there are responses and has returned
\* the final Valid response.
C3_Convergence ==
    \A t \in Tasks :
        (/\ ConvergentScript(t)
         /\ \A k \in 1..(Len(script[t]) - 1) : ScriptStatus(t, k) # "Valid")
        => /\ Len(sent[t]) <= Len(script[t])
           /\ pc[t] # "panicked"
           /\ Terminated(t) =>
                /\ Len(sent[t]) = Len(script[t])
                /\ result[t] = Some(script[t][Len(script[t])])

\* C3 witness: a three-response sequence with a single, final Valid has been
\* consumed in three calls and its last response returned.
C3_Witness ==
    \E t \in Tasks :
        /\ ConvergentScript(t)
        /\ \A k \in 1..(Len(script[t]) - 1) : ScriptStatus(t, k) # "Valid"
        /\ Len(script[t]) >= 3
        /\ ReturnedOk(t)
        /\ Len(sent[t]) = Len(script[t])

\* The first position of a script at which the operation stops consuming it.
ReceivesInvalid(t, k) ==
    /\ k \in 1..Len(script[t])
    /\ ScriptStatus(t, k) = "Invalid"
    /\ \A j \in 1..(k - 1) : ScriptStatus(t, j) \in {"Syncing", "Accepted"}

\* C4 as stated: a V3 operation whose response sequence contains an Invalid
\* response ends in the fatal abort, not in a returned value or a transport
\* error.
C4_Original ==
    \A t \in Tasks :
        (/\ op[t] \in V3Ops
         /\ \E k \in 1..Len(script[t]) : ScriptStatus(t, k) = "Invalid"
         /\ Terminated(t))
        => pc[t] = "panicked"

\* C4 (amended): in a V3 operation, an Invalid response that is preceded by no
\* Valid response and no transport failure is the last one received: no call
\* is issued after it, and the operation ends in the fatal abort with nothing
\* returned.
C4_FatalShortCircuit ==
    \A t \in Tasks : \A k \in 1..Len(received[t]) :
        op[t] \in V3Ops /\ ReceivesInvalid(t, k) =>
            /\ Len(sent[t]) = k
            /\ Len(received[t]) = k
            /\ Outstanding(t) = {}
            /\ pc[t] = "panicked"
            /\ result[t] = None

\* C4 witness: new_payload_v3_wait got [Accepted, Invalid] and has panicked
\* after two calls.
C4_Witness ==
    \E t \in Tasks :
        /\ op[t] = "new_payload_v3_wait"
        /\ Len(received[t]) = 2
        /\ ScriptStatus(t, 1) = "Accepted"
        /\ ScriptStatus(t, 2) = "Invalid"
        /\ pc[t] = "panicked"
        /\ Len(sent[t]) = 2

\* C5: in the V1/V2 operations an Invalid response never ends the operation:
\* it is followed by a further call carrying the same input, and the operation
\* has neither panicked nor returned on it.
C5_RetryOnInvalid ==
    \A t \in Tasks : \A k \in 1..Len(received[t]) :
        (/\ op[t] \notin V3Ops
         /\ received[t][k].kind = "Ok"
         /\ StatusOf(op[t], received[t][k].value) = "Invalid")
        => /\ Len(sent[t]) >= k + 1
           /\ sent[t][k + 1] = sent[t][k]
           /\ sent[t][k + 1] = Call(op[t], args[t])
           /\ pc[t] # "panicked"
           /\ Terminated(t) => Len(received[t]) > k

\* C5 witness: new_payload_v2_wait got [Invalid, Valid], made two calls and
\* returned the Valid response.
C5_Witness ==
    \E t \in Tasks :
        /\ op[t] = "new_payload_v2_wait"
        /\ Len(received[t]) = 2
        /\ ScriptStatus(t, 1) = "Invalid"
        /\ ScriptStatus(t, 2) = "Valid"
        /\ Len(sent[t]) = 2
        /\ ReturnedOk(t)
        /\ result[t] = Some(script[t][2])

\* The request of attempt k carries the caller's input, field for field.
SameAsInput(t, k) ==
    /\ sent[t][k].method = Method(op[t])
    /\ op[t] \in NewPayloadOps => sent[t][k].payload = args[t].payload
    /\ op[t] = "new_payload_v3_wait" =>
        /\ sent[t][k].versioned_hashes = args[t].versioned_hashes
        /\ sent[t][k].parent_beacon_block_root = args[t].parent_beacon_block_root
    /\ op[t] \in ForkChoiceOps =>
        /\ sent[t][k].fork_choice_state = args[t].fork_choice_state
        /\ sent[t][k].payload_attributes = args[t].payload_attributes

\* C6: within one invocation the request of every attempt is field-for-field
\* identical to the request of attempt 1 and to the caller's input; no
\* response received in between changes a request field.
C6_InputImmutability ==
    \A t \in Tasks : \A k \in 1..Len(sent[t]) :
        /\ sent[t][k] = sent[t][1]
        /\ SameAsInput(t, k)
        /\ \A r \in Outstanding(t) : r.call = sent[t][r.attempt]

\* C6 witness: new_payload_v3_wait with non-empty versioned hashes has made
\* a third call after two different responses.
C6_Witness ==
    \E t \in Tasks :
        /\ op[t] = "new_payload_v3_wait"
        /\ args[t].versioned_hashes # <<>>
        /\ Len(sent[t]) >= 3
        /\ received[t][1] # received[t][2]

\* C7 as stated: a wait operation that has terminated has either returned a
\* result whose inner status is Valid or (V3 only) aborted on Invalid.
C7_Original ==
    \A t \in Tasks :
        Terminated(t) =>
            \/ ReturnedOk(t) /\ StatusOf(op[t], result[t][1].value) = "Valid"
            \/ pc[t] = "panicked" /\ op[t] \in V3Ops

\* C7 (amended): a wait operation that has terminated has ended in exactly one
\* of three ways: it returned the response it received last, whose inner
\* status is Valid; it returned the transport error of the client call that
\* failed last; or (V3 only) it aborted on the Invalid response it received
\* last, returning nothing.  An operation that has not terminated has
\* returned nothing.
C7_TerminatesThreeWays ==
    \A t \in Tasks :
        /\ ~Terminated(t) => result[t] = None
        /\ Terminated(t) =>
            /\ Len(received[t]) >= 1
            /\ LET last == received[t][Len(received[t])]
               IN  \/ /\ ReturnedOk(t)
                      /\ last.kind = "Ok"
                      /\ StatusOf(op[t], last.value) = "Valid"
                      /\ result[t] = Some(last)
                   \/ /\ ReturnedErr(t)
                      /\ last.kind = "Err"
                      /\ result[t] = Some(last)
                   \/ /\ pc[t] = "panicked"
                      /\ op[t] \in V3Ops
                      /\ last.kind = "Ok"
                      /\ StatusOf(op[t], last.value) = "Invalid"
                      /\ result[t] = None

\* C7 witness: a V3 forkchoice update ended by propagating a transport error
\* after non-terminal responses.
C7_Witness ==
    \E t \in Tasks :
        /\ op[t] = "fork_choice_updated_v3_wait"
        /\ ReturnedErr(t)
        /\ Len(received[t]) = 3

\* C8 as stated: Valid and Invalid are terminal for every wait operation (no
\* call follows such a response) and only Syncing and Accepted are followed
\* by a resubmission.
C8_Original ==
    \A t \in Tasks : \A k \in 1..Len(received[t]) :
        received[t][k].kind = "Ok" =>
            IF StatusOf(op[t], received[t][k].value) \in {"Valid", "Invalid"}
            THEN Len(sent[t]) = k
            ELSE Len(sent[t]) >= k + 1

\* A response status after which the operation polls no more.
TerminalFor(o, st) == st = "Valid" \/ (st = "Invalid" /\ o \in V3Ops)

\* C8 (amended): Valid is terminal for every wait operation and Invalid is
\* terminal for the V3 operations only: once such a response has been
\* received no further client call occurs and the operation has terminated.
\* Syncing and Accepted, and for the V1/V2 operations Invalid, trigger
\* resubmission of the same request.
C8_TerminalStatuses ==
    \A t \in Tasks : \A k \in 1..Len(received[t]) :
        received[t][k].kind = "Ok" =>
            IF TerminalFor(op[t], StatusOf(op[t], received[t][k].value))
            THEN /\ Len(sent[t]) = k
                 /\ Len(received[t]) = k
                 /\ Outstanding(t) = {}
                 /\ Terminated(t)
            ELSE /\ Len(sent[t]) >= k + 1
                 /\ sent[t][k + 1] = sent[t][k]

\* C8 witness: fork_choice_updated_v1_wait was answered Invalid, polled
\* again, and stopped polling on Valid.
C8_Witness ==
    \E t \in Tasks :
        /\ op[t] = "fork_choice_updated_v1_wait"
        /\ Len(received[t]) = 3
        /\ ScriptStatus(t, 1) = "Invalid"
        /\ ScriptStatus(t, 2) = "Syncing"
        /\ ScriptStatus(t, 3) = "Valid"
        /\ Terminated(t)
        /\ Len(sent[t]) = 3

\* C9: an invocation has at most one outstanding request at any time, and
\* attempt k+1 is sent only after the response to attempt k was received:
\* the calls issued exceed the answers received by one exactly while a request
\* is outstanding, and that request is the latest attempt.
C9_StrictlySequential ==
    \A t \in Tasks :
        /\ Cardinality(Outstanding(t)) <= 1
        /\ Len(received[t]) <= Len(sent[t])
        /\ Len(sent[t]) <= Len(received[t]) + 1
        /\ Outstanding(t) # {} <=> Len(sent[t]) = Len(received[t]) + 1
        /\ \A r \in Outstanding(t) : r.attempt = Len(sent[t])
        /\ \A k \in 1..Len(received[t]) : received[t][k] = script[t][k]

\* C9 witness: the third attempt is outstanding, two answers received.
C9_Witness ==
    \E t \in Tasks :
        /\ Len(sent[t]) = 3
        /\ Len(received[t]) = 2
        /\ Cardinality(Outstanding(t)) = 1

\* A successful answer that does not end the operation.
NonTerminal(t, k) ==
    /\ script[t][k].kind = "Ok"
    /\ ~TerminalFor(op[t], ScriptStatus(t, k))

\* C10: as long as every answer so far was successful and non-terminal
\* (Syncing or Accepted, or Invalid for a V1/V2 operation), the operation has
\* not terminated and has issued one more request than it has received
\* answers, however many answers that is: there is no bound on attempts.
C10_NeverTerminates ==
    \A t \in Tasks :
        (pc[t] # "start" /\ \A k \in 1..Len(received[t]) : NonTerminal(t, k))
        => /\ pc[t] = "await"
           /\ result[t] = None
           /\ Len(sent[t]) = Len(received[t]) + 1
           /\ Cardinality(Outstanding(t)) = 1

\* C10 witness: a V1 operation was answered Invalid and then only
\* non-terminal statuses for the whole script, and has a further request out.
C10_Witness ==
    \E t \in Tasks :
        /\ op[t] = "new_payload_v1_wait"
        /\ Len(received[t]) = Len(script[t])
        /\ Len(received[t]) >= 3
        /\ ScriptStatus(t, 1) = "Invalid"
        /\ \A k \in 1..Len(received[t]) : NonTerminal(t, k)
        /\ Len(sent[t]) = Len(script[t]) + 1
        /\ pc[t] = "await"

\* C11: on success the returned value is the response of the last client call
\* in every field (status, latest_valid_hash and, for forkchoice updates,
\* payload_id); that response is the one that carried Valid, and no earlier
\* response is returned or merged into it.
C11_ReturnsLastResponse ==
    \A t \in Tasks :
        ReturnedOk(t) =>
            LET last == script[t][Len(sent[t])]
                ret == result[t][1].value
            IN  /\ last.kind = "Ok"
                /\ StatusOf(op[t], last.value) = "Valid"
                /\ Len(received[t]) = Len(sent[t])
                /\ IF op[t] \in NewPayloadOps
                   THEN /\ DOMAIN ret = {"status", "latest_valid_hash"}
                        /\ ret.status = last.value.status
                        /\ ret.latest_valid_hash = last.value.latest_valid_hash
                   ELSE /\ DOMAIN ret = {"payload_status", "payload_id"}
                        /\ ret.payload_id = last.value.payload_id
                        /\ ret.payload_status.status = last.value.payload_status.status
                        /\ ret.payload_status.latest_valid_hash =
                              last.value.payload_status.latest_valid_hash

\* C11 witness: a forkchoice update returned a Valid response that carries a
\* payload id and no latest valid hash, after an earlier response that
\* carried a hash.
C11_Witness ==
    \E t \in Tasks :
        /\ op[t] = "fork_choice_updated_v1_wait"
        /\ ReturnedOk(t)
        /\ Len(sent[t]) = 2
        /\ received[t][1].value.payload_status.latest_valid_hash = Some("h1")
        /\ result[t][1].value.payload_id = Some("id1")
        /\ result[t][1].value.payload_status.latest_valid_hash = None

Panicked == {t \in Tasks : pc[t] = "panicked"}

\* The diagnostic entry expected of an aborted V3 invocation: the response it
\* received last and the request it submitted last.
Diagnostic(t) ==
    LET resp == received[t][Len(received[t])].value
        req == sent[t][Len(sent[t])]
    IN  IF op[t] = "new_payload_v3_wait"
        THEN [message |-> "Invalid payload", status |-> resp,
              payload |-> req.payload,
              versioned_hashes |-> req.versioned_hashes,
              parent_beacon_block_root |-> req.parent_beacon_block_root]
        ELSE [message |-> "Invalid FCU", status |-> resp,
              fork_choice_state |-> req.fork_choice_state,
              payload_attributes |-> req.payload_attributes]

\* C12: an aborted invocation is a V3 one whose last response was Invalid, and
\* the log holds exactly one diagnostic entry for it, made of that response
\* and of the exact submitted request; the log holds no entry for an
\* invocation that has not aborted.
C12_DiagnosticOnAbort ==
    /\ Len(log) = Cardinality(Panicked)
    /\ \A t \in Panicked :
        /\ op[t] \in V3Ops
        /\ Len(received[t]) >= 1
        /\ received[t][Len(received[t])].kind = "Ok"
        /\ StatusOf(op[t], received[t][Len(received[t])].value) = "Invalid"
        /\ sent[t][Len(sent[t])] = Call(op[t], args[t])
        /\ Cardinality({i \in 1..Len(log) : log[i] = Diagnostic(t)})
             = Cardinality({u \in Panicked : Diagnostic(u) = Diagnostic(t)})

\* C12 witness: new_payload_v3_wait with non-empty versioned hashes aborted
\* on its second response and the log holds its entry.
C12_Witness ==
    \E t \in Tasks :
        /\ op[t] = "new_payload_v3_wait"
        /\ args[t].versioned_hashes # <<>>
        /\ pc[t] = "panicked"
        /\ Len(sent[t]) = 2
        /\ \E i \in 1..Len(log) : log[i] = Diagnostic(t)

\* An outcome that ends operation o: a transport failure, Valid, or for a V3
\* operation Invalid.
Stops(o, x) == x.kind = "Err" \/ TerminalFor(o, StatusOf(o, x.value))

\* The position of the first outcome of script s that ends operation o, 0 if
\* there is none.
FirstStop(o, s) ==
    LET stops == {k \in 1..Len(s) : Stops(o, s[k])}
    IN  IF stops = {} THEN 0 ELSE CHOOSE k \in stops : \A j \in stops : k <= j

\* Invocation t is where it would be had it run alone on its own input and
\* been given its own outcomes: its requests carry its own input, its answers
\* are the answers to its own requests, and its calls and result are those
\* its own outcomes determine.
AsAlone(t) ==
    LET n == Len(received[t])
        stop == FirstStop(op[t], script[t])
    IN  /\ received[t] = SubSeq(script[t], 1, n)
        /\ \A k \in 1..Len(sent[t]) : SameAsInput(t, k)
        /\ \A r \in Outstanding(t) : r.call = sent[t][r.attempt]
        /\ stop # 0 => n <= stop
        /\ IF pc[t] = "start"
           THEN n = 0 /\ sent[t] = <<>> /\ result[t] = None
           ELSE IF n > 0 /\ n = stop
           THEN /\ Len(sent[t]) = n
                /\ Outstanding(t) = {}
                /\ IF script[t][n].kind = "Err"
                   THEN pc[t] = "returned" /\ result[t] = Some(script[t][n])
                   ELSE IF ScriptStatus(t, n) = "Valid"
                   THEN pc[t] = "returned" /\ result[t] = Some(script[t][n])
                   ELSE pc[t] = "panicked" /\ result[t] = None
           ELSE /\ pc[t] = "await"
                /\ Len(sent[t]) = n + 1
                /\ Cardinality(Outstanding(t)) = 1
                /\ result[t] = None

\* Invocation t was dropped by the fatal abort of another invocation: up to
\* then it ran as it would have alone, and it has issued nothing since.
CutShort(t) ==
    LET n == Len(received[t])
        stop == FirstStop(op[t], script[t])
    IN  /\ pc[t] = "aborted"
        /\ \E u \in Tasks \ {t} : pc[u] = "panicked" /\ op[u] \in V3Ops
        /\ received[t] = SubSeq(script[t], 1, n)
        /\ \A k \in 1..Len(sent[t]) : SameAsInput(t, k)
        /\ stop = 0 \/ n < stop
        /\ Len(sent[t]) \in {0, n + 1}
        /\ Len(sent[t]) = 0 => n = 0
        /\ Outstanding(t) = {}
        /\ result[t] = None

\* C13 as stated: with several invocations interleaved over one client, the
\* calls and the outcome of each are those of a run on its own; neither a
\* response, nor a retry, nor the termination of another changes them.
C13_Original == \A t \in Tasks : AsAlone(t)

\* C13 (amended): with several invocations interleaved over one client, the
\* requests, the answers, the call count and the result of each are those of
\* a run on its own, with one exception: the fatal abort of a V3 invocation
\* may end an invocation that is still running, which then has done a prefix
\* of its run on its own and returns nothing.
C13_IndependentUpToAbort == \A t \in Tasks : AsAlone(t) \/ CutShort(t)

\* C13 witness: two invocations of different kinds were interleaved, each
\* retried, and both returned.
C13_Witness ==
    /\ Tasks = {1, 2}
    /\ op[1] \in NewPayloadOps /\ op[2] \in ForkChoiceOps
    /\ ReturnedOk(1) /\ ReturnedErr(2)
    /\ Len(sent[1]) = 2 /\ Len(sent[2]) = 2

HasValid(t) == \E k \in 1..Len(script[t]) : ScriptStatus(t, k) = "Valid"

\* The first outcome that ends the operation is a Valid response.
ValidComesFirst(t) ==
    /\ FirstStop(op[t], script[t]) # 0
    /\ ScriptStatus(t, FirstStop(op[t], script[t])) = "Valid"

\* C14: when the client answers the operation's calls and one of the answers
\* in store is Valid, the operation eventually terminates; and when no
\* transport failure (for V3: and no Invalid) comes before that Valid, it
\* eventually returns the Valid response.
C14_EventuallyTerminates ==
    \A t \in {1} :
        /\ HasValid(t) ~> Terminated(t)
        /\ (HasValid(t) /\ ValidComesFirst(t)) ~>
              (ReturnedOk(t) /\ StatusOf(op[t], result[t][1].value) = "Valid")

\* C14 witness: an operation answered Syncing, Accepted, Valid has returned.
C14_Witness ==
    \E t \in Tasks :
        /\ HasValid(t)
        /\ Len(script[t]) = 3
        /\ ScriptStatus(t, 1) = "Syncing"
        /\ ScriptStatus(t, 2) = "Accepted"
        /\ ReturnedOk(t)
        /\ Len(sent[t]) = 3

\* C15: an operation that is under way has issued at least one call; it
\* never consumes an outcome past the first terminating one (a transport
\* failure, a Valid response or, for V3, an Invalid response); and when it
\* has terminated, its number of calls is the position of that outcome, a
\* Valid one ending it by a return, never by an abort.
C15_ExactCallCount ==
    \A t \in Tasks :
        LET stop == FirstStop(op[t], script[t])
        IN  /\ pc[t] \in {"await", "returned", "panicked"} => Len(sent[t]) >= 1
            /\ stop # 0 => Len(sent[t]) <= stop /\ Len(received[t]) <= stop
            /\ Terminated(t) =>
                /\ stop # 0
                /\ Len(sent[t]) = stop
                /\ Len(received[t]) = stop
                /\ ScriptStatus(t, stop) = "Valid" => ReturnedOk(t)
                /\ ScriptStatus(t, stop) = "Err" => ReturnedErr(t)
                /\ ScriptStatus(t, stop) = "Invalid" => pc[t] = "panicked"

\* C15 witness: a V3 operation given [Valid, Invalid, ..] returned after one
\* call without aborting.
C15_Witness ==
    \E t \in Tasks :
        /\ op[t] \in V3Ops
        /\ Len(script[t]) >= 2
        /\ ScriptStatus(t, 1) = "Valid"
        /\ ScriptStatus(t, 2) = "Invalid"
        /\ ReturnedOk(t)
        /\ Len(sent[t]) = 1

\* The PayloadStatus a returned value carries.
InnerStatus(o, v) == IF o \in NewPayloadOps THEN v ELSE v.payload_status

\* Invocations 1 and 2 returned the same thing: the same transport error, or
\* responses that are equal (operations of one kind) resp. carry the same
\* PayloadStatus (a payload submission and a forkchoice update).
SameResult ==
    /\ (result[1] = None) = (result[2] = None)
    /\ result[1] # None =>
        /\ result[1][1].kind = result[2][1].kind
        /\ result[1][1].kind = "Err" => result[1][1].error = result[2][1].error
        /\ result[1][1].kind = "Ok" =>
            /\ InnerStatus(op[1], result[1][1].value)
                 = InnerStatus(op[2], result[2][1].value)
            /\ SameKind(op[1], op[2]) => result[1][1].value = result[2][1].value

\* C16: two operations given the same outcomes (a V1/V2 operation and the V3
\* one of its kind, no outcome being Invalid; or the payload submission and
\* the forkchoice update of one version, any outcomes) move in lockstep:
\* neither consumes an answer after the other has terminated, and after the
\* same number of answers they are at the same point, with the same number
\* of calls and the same returned response or transport error.
C16_VersionEquivalence ==
    (/\ Tasks = {1, 2}
     /\ \A t \in Tasks : pc[t] \notin {"start", "aborted"})
    => /\ Terminated(1) => Len(received[2]) <= Len(received[1])
       /\ Terminated(2) => Len(received[1]) <= Len(received[2])
       /\ Len(received[1]) = Len(received[2]) =>
            /\ pc[1] = pc[2]
            /\ Len(sent[1]) = Len(sent[2])
            /\ SameResult

\* C16 witness: new_payload_v2_wait and new_payload_v3_wait, given the same
\* three outcomes, both made three calls and returned the same response.
C16_Witness ==
    /\ Tasks = {1, 2}
    /\ op[1] = "new_payload_v2_wait" /\ op[2] = "new_payload_v3_wait"
    /\ script[1] = script[2]
    /\ ReturnedOk(1) /\ ReturnedOk(2)
    /\ Len(sent[1]) = 3 /\ Len(sent[2]) = 3
    /\ result[1] = result[2]
====
